---- MODULE Spec2Model ----
(***************************************************************************)
(* strength_reduce: unsigned division and modulo by a runtime-invariant    *)
(* divisor through one multiplication and shifts (src/src/lib.rs).         *)
(*                                                                         *)
(* Unsigned integers of the Rust types u8 .. u128 are modelled as          *)
(* little-endian sequences of base-256 digits ("limbs"), one limb per      *)
(* byte of the type, so that every width keeps its real size: a u8 is one  *)
(* limb, a u64 eight limbs, a u128 sixteen.  Arithmetic on them is the     *)
(* machine arithmetic of the type: results are reduced modulo 2^bits and   *)
(* the overflow condition is reported next to the wrapped value.           *)
(***************************************************************************)
EXTENDS Integers, Sequences, FiniteSets, TLC

Base == 256

\* 2^e for 0 <= e <= 8
Pow2(e) == <<1, 2, 4, 8, 16, 32, 64, 128, 256>>[e + 1]

\* the digits of f as an explicit sequence
Limbs(f) == f \o <<>>

\* limb i of a, zero outside the stored limbs
Limb(a, i) == IF i >= 1 /\ i <= Len(a) THEN a[i] ELSE 0

\* the value x (x < 2^24) in a type of k bytes
FromInt(x, k) ==
    Limbs([i \in 1..k |-> IF i = 1 THEN x % Base
                          ELSE IF i = 2 THEN (x \div Base) % Base
                          ELSE IF i = 3 THEN (x \div (Base * Base)) % Base
                          ELSE 0])

\* "a as <type of k bytes>": zero-extension or truncation to the low k bytes
Cast(a, k) == Limbs([i \in 1..k |-> Limb(a, i)])

IsZero(a) == \A i \in 1..Len(a) : a[i] = 0

\* a check that lets every divisor through
PositiveUnchecked(a) == TRUE

\* a > 0 for an unsigned a
Positive(a) == ~IsZero(a)

\* a < b for operands of the same length, compared from the top limb down
RECURSIVE LessFrom(_, _, _)
LessFrom(a, b, i) ==
    IF i = 0 THEN FALSE
    ELSE IF a[i] # b[i] THEN a[i] < b[i]
    ELSE LessFrom(a, b, i - 1)

Less(a, b) == LessFrom(a, b, Len(a))
LessEq(a, b) == ~Less(b, a)

\* carry propagation: digit columns (each < 2^30) to Len(cols) limbs followed
\* by the carry out of the top limb
RECURSIVE Normalize(_, _, _)
Normalize(cols, i, carry) ==
    IF i > Len(cols) THEN <<carry>>
    ELSE LET s == cols[i] + carry
         IN  <<s % Base>> \o Normalize(cols, i + 1, s \div Base)

\* a + b in the type of a: [val |-> wrapped sum, overflow |-> carry out]
WrappingAdd(a, b) ==
    LET k == Len(a)
        r == Normalize(Limbs([i \in 1..k |-> a[i] + Limb(b, i)]), 1, 0)
    IN  [val |-> SubSeq(r, 1, k), overflow |-> r[k + 1] # 0]

\* a - b in the type of a: [val |-> wrapped difference, overflow |-> a < b]
RECURSIVE SubFrom(_, _, _, _)
SubFrom(a, b, i, borrow) ==
    IF i > Len(a) THEN <<borrow>>
    ELSE LET s == a[i] - Limb(b, i) - borrow
         IN  IF s < 0 THEN <<s + Base>> \o SubFrom(a, b, i + 1, 1)
             ELSE <<s>> \o SubFrom(a, b, i + 1, 0)

WrappingSub(a, b) ==
    LET k == Len(a)
        r == SubFrom(a, b, 1, 0)
    IN  [val |-> SubSeq(r, 1, k), overflow |-> r[k + 1] # 0]

\* the number of limbs of a up to its highest non-zero one
RECURSIVE Significant(_, _)
Significant(a, i) == IF i = 0 \/ a[i] # 0 THEN i ELSE Significant(a, i - 1)

\* column j of the schoolbook product: the sum of a[i] * b[j - i + 1] over
\* the limbs i..hi of a
RECURSIVE Column(_, _, _, _, _)
Column(a, b, j, i, hi) ==
    IF i > hi THEN 0
    ELSE a[i] * b[j - i + 1] + Column(a, b, j, i + 1, hi)

Min(x, y) == IF x < y THEN x ELSE y
Max(x, y) == IF x < y THEN y ELSE x

\* the full product of a and b, Len(a) + Len(b) limbs, never truncated;
\* only the significant limbs of the operands contribute
WideMul(a, b) ==
    LET n == Len(a) + Len(b)
        la == Significant(a, Len(a))
        lb == Significant(b, Len(b))
        cols == [j \in 1..n |-> Column(a, b, j, Max(1, j - lb + 1), Min(la, j))]
        r == Normalize(Limbs(cols), 1, 0)
    IN  SubSeq(r, 1, n)

\* a * b in the type of a: [val |-> low limbs, overflow |-> high limbs # 0]
WrappingMul(a, b) ==
    LET k == Len(a)
        p == WideMul(a, b)
    IN  [val |-> SubSeq(p, 1, k),
         overflow |-> \E i \in (k + 1)..Len(p) : p[i] # 0]

\* a >> s in the type of a, for 0 <= s < bits of a
Shr(a, s) ==
    LET q == s \div 8
        r == s % 8
    IN  Limbs([i \in 1..Len(a) |->
            (Limb(a, i + q) \div Pow2(r))
          + ((Limb(a, i + q + 1) * Pow2(8 - r)) % Base)])

\* a << s in the type of a (bits shifted out of the top are lost),
\* for 0 <= s < bits of a
Shl(a, s) ==
    LET q == s \div 8
        r == s % 8
    IN  Limbs([i \in 1..Len(a) |->
            ((Limb(a, i - q) * Pow2(r)) % Base)
          + (Limb(a, i - q - 1) \div Pow2(8 - r))])

\* bit i (0 = least significant) of a
Bit(a, i) == (a[(i \div 8) + 1] \div Pow2(i % 8)) % 2

\* binary long division of a by b # 0: the bits of a are shifted, from the
\* top, into the running remainder rem (kept in one byte more than a), and b
\* is subtracted whenever it fits, which gives a quotient bit of 1.
\* DivBits handles the bits i down to lo of one limb of a and returns
\* <<quotient digit, remainder>>; LongDiv goes through the limbs from the top
\* one down and returns <<quotient, remainder>>.
RECURSIVE DivBits(_, _, _, _, _, _)
DivBits(a, b, i, lo, digit, rem) ==
    IF i < lo THEN <<digit, rem>>
    ELSE LET sh == Shl(rem, 1)
             r1 == [sh EXCEPT ![1] = @ + Bit(a, i)]
         IN  IF LessEq(b, r1)
             THEN DivBits(a, b, i - 1, lo, 2 * digit + 1, WrappingSub(r1, b).val)
             ELSE DivBits(a, b, i - 1, lo, 2 * digit, r1)

RECURSIVE LongDiv(_, _, _, _, _)
LongDiv(a, b, limb, quo, rem) ==
    IF limb = 0 THEN <<quo, rem>>
    ELSE LET r == DivBits(a, b, 8 * limb - 1, 8 * limb - 8, 0, rem)
         IN  LongDiv(a, b, limb - 1, [quo EXCEPT ![limb] = r[1]], r[2])

\* floor(a / b) and a mod b in the type of a, for b # 0
DivMod(a, b) ==
    LET k == Len(a)
        r == LongDiv(a, Cast(b, k + 1), k, Cast(<<>>, k), Cast(<<>>, k + 1))
    IN  [quot |-> r[1], rem |-> Cast(r[2], k)]

\* the value of all-ones in a type of k bytes (core::$primitive_type::MAX)
MaxValue(k) == Limbs([i \in 1..k |-> Base - 1])

\* x.next_power_of_two() in the type of x: the smallest power of two >= x,
\* found by doubling p = 2^e; when no power of two of the type is >= x the
\* result wraps to 0 and the overflow is reported
RECURSIVE NextPowerFrom(_, _, _)
NextPowerFrom(x, p, e) ==
    IF e = 8 * Len(x) THEN [val |-> Cast(<<>>, Len(x)), overflow |-> TRUE]
    ELSE IF LessEq(x, p) THEN [val |-> p, overflow |-> FALSE]
    ELSE NextPowerFrom(x, Shl(p, 1), e + 1)

NextPowerOfTwo(x) == NextPowerFrom(x, FromInt(1, Len(x)), 0)

\* x.trailing_zeros(): the number of zero bits below the lowest set bit, and
\* the bit width of the type for x = 0
RECURSIVE TrailingZerosFrom(_, _)
TrailingZerosFrom(x, i) ==
    IF i = 8 * Len(x) THEN i
    ELSE IF Bit(x, i) = 1 THEN i
    ELSE TrailingZerosFrom(x, i + 1)

TrailingZeros(x) == TrailingZerosFrom(x, 0)

\* a << s and a >> s as the operators of the language: a shift by the bit
\* width or more is an overflow, and the wrapped result shifts by s modulo
\* the bit width
ShlOp(a, s) == [val |-> Shl(a, s % (8 * Len(a))), overflow |-> s >= 8 * Len(a)]
ShrOp(a, s) == [val |-> Shr(a, s % (8 * Len(a))), overflow |-> s >= 8 * Len(a)]

\* the outcome of a call: a returned value, or a panic (val is then empty)
Returned(v) == [panic |-> "", val |-> v]
Panicked(msg) == [panic |-> msg, val |-> <<>>]

AssertMsg == "assertion failed: divisor > 0"
OverflowMsg == "arithmetic overflow"
DivZeroMsg == "attempt to divide by zero"

\* bytes of $primitive_type and of $intermediate_type for a bit width
PrimBytes(bit_width) == bit_width \div 8
InterBytes(bit_width) == bit_width \div 4

(***************************************************************************)
(* macro strength_reduced_impl ($primitive_type multiplier)                *)
(***************************************************************************)

\* the dividend without the rounding term
DividendFloor(big_divisor, shift_size) ==
    ShlOp(FromInt(1, Len(big_divisor)), shift_size)

\* (1 << shift_size) + big_divisor - 1 in $intermediate_type, the dividend
\* that makes the division by big_divisor round up
Dividend(big_divisor, shift_size) ==
    LET one == FromInt(1, Len(big_divisor))
        shl == ShlOp(one, shift_size)
        sum == WrappingAdd(shl.val, big_divisor)
        dif == WrappingSub(sum.val, one)
    IN  [val |-> dif.val,
         overflow |-> shl.overflow \/ sum.overflow \/ dif.overflow]

\* Self{ multiplier: 1, divisor, shift_value: 0 }
UnitA(divisor, bit_width) ==
    [multiplier |-> FromInt(1, PrimBytes(bit_width)),
     divisor |-> divisor,
     shift_value |-> 0]

\* $struct_name::new(divisor); checks is the build's overflow-checks setting
NewA(divisor, bit_width, checks) ==
    IF ~Positive(divisor) THEN Panicked(AssertMsg)
    ELSE IF divisor = FromInt(1, PrimBytes(bit_width))
    THEN Returned(UnitA(divisor, bit_width))
    ELSE LET big_divisor == Cast(divisor, InterBytes(bit_width))
             power == NextPowerOfTwo(big_divisor)
             trailing_zeros == TrailingZeros(power.val)
             shift_size == trailing_zeros + bit_width - 1
             dividend == Dividend(big_divisor, shift_size)
         IN  IF checks /\ (power.overflow \/ dividend.overflow)
             THEN Panicked(OverflowMsg)
             ELSE IF IsZero(big_divisor) THEN Panicked(DivZeroMsg)
             ELSE Returned([multiplier |-> Cast(DivMod(dividend.val, big_divisor).quot,
                                                PrimBytes(bit_width)),
                            divisor |-> divisor,
                            shift_value |-> shift_size % 256])

\* a division that leaves the shift out
DivANoShift(self, rhs, bit_width, checks) ==
    LET multiplied == WrappingMul(Cast(self, InterBytes(bit_width)),
                                  Cast(rhs.multiplier, InterBytes(bit_width)))
    IN  IF checks /\ multiplied.overflow
        THEN Panicked(OverflowMsg)
        ELSE Returned(Cast(multiplied.val, PrimBytes(bit_width)))

\* impl Div<$struct_name> for $primitive_type: self / rhs
DivA(self, rhs, bit_width, checks) ==
    LET multiplied == WrappingMul(Cast(self, InterBytes(bit_width)),
                                  Cast(rhs.multiplier, InterBytes(bit_width)))
        shifted == ShrOp(multiplied.val, rhs.shift_value)
    IN  IF checks /\ (multiplied.overflow \/ shifted.overflow)
        THEN Panicked(OverflowMsg)
        ELSE Returned(Cast(shifted.val, PrimBytes(bit_width)))

\* impl Rem<$struct_name> for $primitive_type: self % rhs
RemA(self, rhs, bit_width, checks) ==
    LET quotient == DivA(self, rhs, bit_width, checks)
        product == WrappingMul(quotient.val, rhs.divisor)
        dif == WrappingSub(self, product.val)
    IN  IF quotient.panic # "" THEN quotient
        ELSE IF checks /\ (product.overflow \/ dif.overflow)
        THEN Panicked(OverflowMsg)
        ELSE Returned(dif.val)

\* a div_rem that forgets to multiply the quotient by the divisor
DivRemANoProduct(numerator, denom, bit_width, checks) ==
    LET quotient == DivA(numerator, denom, bit_width, checks)
        remainder == WrappingSub(numerator, quotient.val)
    IN  IF quotient.panic # "" THEN quotient
        ELSE IF checks /\ remainder.overflow
        THEN Panicked(OverflowMsg)
        ELSE Returned(<<quotient.val, remainder.val>>)

\* $struct_name::div_rem(numerator, denom): <<quotient, remainder>>
DivRemA(numerator, denom, bit_width, checks) ==
    LET quotient == DivA(numerator, denom, bit_width, checks)
        product == WrappingMul(quotient.val, denom.divisor)
        remainder == WrappingSub(numerator, product.val)
    IN  IF quotient.panic # "" THEN quotient
        ELSE IF checks /\ (product.overflow \/ remainder.overflow)
        THEN Panicked(OverflowMsg)
        ELSE Returned(<<quotient.val, remainder.val>>)

\* an accessor that returns the wrong field
GetAMultiplier(self) == Returned(self.multiplier)

\* $struct_name::get(&self)
GetA(self) == Returned(self.divisor)

(***************************************************************************)
(* macro strength_reduced_impl_intermediate_multiplier                     *)
(* ($intermediate_type multiplier)                                         *)
(***************************************************************************)

\* the unit value of the other macro, which has the multiplier 1
UnitBOne(divisor, bit_width) ==
    [multiplier |-> FromInt(1, InterBytes(bit_width)),
     divisor |-> divisor,
     shift_value |-> 0]

\* Self{ multiplier: 1 << $bit_width, divisor, shift_value: 0 }
UnitB(divisor, bit_width) ==
    [multiplier |-> ShlOp(FromInt(1, InterBytes(bit_width)), bit_width).val,
     divisor |-> divisor,
     shift_value |-> 0]

NewB(divisor, bit_width, checks) ==
    IF ~Positive(divisor) THEN Panicked(AssertMsg)
    ELSE IF divisor = FromInt(1, PrimBytes(bit_width))
    THEN Returned(UnitB(divisor, bit_width))
    ELSE LET big_divisor == Cast(divisor, InterBytes(bit_width))
             power == NextPowerOfTwo(big_divisor)
             trailing_zeros == TrailingZeros(power.val)
             dividend == Dividend(big_divisor, trailing_zeros + bit_width - 1)
             \* (trailing_zeros - 1) as u8, the subtraction being in u32
             less_one == IF trailing_zeros >= 1 THEN (trailing_zeros - 1) % 256
                         ELSE 255
         IN  IF checks /\ (power.overflow \/ dividend.overflow)
             THEN Panicked(OverflowMsg)
             ELSE IF IsZero(big_divisor) THEN Panicked(DivZeroMsg)
             ELSE IF checks /\ trailing_zeros < 1 THEN Panicked(OverflowMsg)
             ELSE Returned([multiplier |-> DivMod(dividend.val, big_divisor).quot,
                            divisor |-> divisor,
                            shift_value |-> less_one])

DivB(self, rhs, bit_width, checks) ==
    LET product == WrappingMul(Cast(self, InterBytes(bit_width)), rhs.multiplier)
        multiplied == ShrOp(product.val, bit_width)
        shifted == ShrOp(Cast(multiplied.val, PrimBytes(bit_width)), rhs.shift_value)
    IN  IF checks /\ (product.overflow \/ multiplied.overflow \/ shifted.overflow)
        THEN Panicked(OverflowMsg)
        ELSE Returned(shifted.val)

RemB(self, rhs, bit_width, checks) ==
    LET quotient == DivB(self, rhs, bit_width, checks)
        product == WrappingMul(quotient.val, rhs.divisor)
        dif == WrappingSub(self, product.val)
    IN  IF quotient.panic # "" THEN quotient
        ELSE IF checks /\ (product.overflow \/ dif.overflow)
        THEN Panicked(OverflowMsg)
        ELSE Returned(dif.val)

DivRemB(numerator, denom, bit_width, checks) ==
    LET quotient == DivB(numerator, denom, bit_width, checks)
        product == WrappingMul(quotient.val, denom.divisor)
        remainder == WrappingSub(numerator, product.val)
    IN  IF quotient.panic # "" THEN quotient
        ELSE IF checks /\ (product.overflow \/ remainder.overflow)
        THEN Panicked(OverflowMsg)
        ELSE Returned(<<quotient.val, remainder.val>>)

GetB(self) == Returned(self.divisor)

(***************************************************************************)
(* The instantiations of the two macros (lib.rs 209-220).                  *)
(* StrengthReducedUsize is whichever expansion the target's pointer width  *)
(* selects.                                                                *)
(***************************************************************************)
Instance(name, variant, bit_width) ==
    [struct |-> name, variant |-> variant, bit_width |-> bit_width]

Instances ==
    { Instance("StrengthReducedU8", "A", 8),
      Instance("StrengthReducedU16", "A", 16),
      Instance("StrengthReducedU32", "B", 32),
      Instance("StrengthReducedU64", "B", 64),
      Instance("StrengthReducedUsize", "A", 16),
      Instance("StrengthReducedUsize", "B", 32),
      Instance("StrengthReducedUsize", "B", 64) }

new(i, divisor, checks) ==
    IF i.variant = "A" THEN NewA(divisor, i.bit_width, checks)
    ELSE NewB(divisor, i.bit_width, checks)

div(i, self, rhs, checks) ==
    IF i.variant = "A" THEN DivA(self, rhs, i.bit_width, checks)
    ELSE DivB(self, rhs, i.bit_width, checks)

rem(i, self, rhs, checks) ==
    IF i.variant = "A" THEN RemA(self, rhs, i.bit_width, checks)
    ELSE RemB(self, rhs, i.bit_width, checks)

div_rem(i, numerator, denom, checks) ==
    IF i.variant = "A" THEN DivRemA(numerator, denom, i.bit_width, checks)
    ELSE DivRemB(numerator, denom, i.bit_width, checks)

get(i, self) == IF i.variant = "A" THEN GetA(self) ELSE GetB(self)

(***************************************************************************)
(* Inputs.  Divisors of the 8-bit type are swept over its whole range;     *)
(* everything else takes the values of the repository's tests: the small   *)
(* values, the values just below the maximum, and the spot-check pairs of  *)
(* the 8-bit and 16-bit types.                                             *)
(***************************************************************************)
MaxSmall == 8
MaxBack == 4

SpotDivisor(bit_width) == IF bit_width = 8 THEN 39 ELSE 3827
SpotNumerator(bit_width) == IF bit_width = 8 THEN 233 ELSE 49750

Small(k) == { FromInt(x, k) : x \in 0..MaxSmall }
NearMax(k) == { WrappingSub(MaxValue(k), FromInt(x, k)).val : x \in 0..MaxBack }

Divisors(i) ==
    LET k == PrimBytes(i.bit_width)
    IN  IF k = 1 THEN { FromInt(x, 1) : x \in 0..(Base - 1) }
        ELSE Small(k) \cup NearMax(k)
             \cup (IF k = 2 THEN {FromInt(SpotDivisor(i.bit_width), k)} ELSE {})

Numerators(i) ==
    LET k == PrimBytes(i.bit_width)
    IN  Small(k) \cup NearMax(k)
        \cup (IF k <= 2 THEN {FromInt(SpotNumerator(i.bit_width), k)} ELSE {})

(***************************************************************************)
(* The caller: one instantiation in one build; it constructs a reduced     *)
(* divisor, then loops over numerators, and in the body of the loop calls  *)
(* the operations on the current numerator any number of times.            *)
(***************************************************************************)
VARIABLES inst, overflow_checks, reduced_divisor, numerator, last

vars == <<inst, overflow_checks, reduced_divisor, numerator, last>>

\* the record of a call: the operation, its integer argument when it has
\* one, and its outcome
Call(op, arg, out) == [op |-> op, arg |-> arg, panic |-> out.panic, val |-> out.val]

NoCall == Call("none", <<>>, Returned(<<>>))

Init ==
    /\ inst \in Instances
    /\ overflow_checks \in BOOLEAN
    /\ reduced_divisor = <<>>
    /\ numerator = <<>>
    /\ last = NoCall

\* let reduced_divisor = $struct_name::new(divisor)
New(divisor) ==
    /\ reduced_divisor = <<>>
    /\ LET out == new(inst, divisor, overflow_checks)
       IN  /\ reduced_divisor' = IF out.panic = "" THEN <<out.val>> ELSE <<>>
           /\ last' = Call("new", divisor, [panic |-> out.panic, val |-> <<>>])
    /\ UNCHANGED <<inst, overflow_checks, numerator>>

\* the numerators the body of the loop may pass
Current == IF numerator = <<>> THEN Numerators(inst) ELSE {numerator[1]}

\* numerator / reduced_divisor
Div(n) ==
    /\ reduced_divisor # <<>>
    /\ numerator' = <<n>>
    /\ last' = Call("div", n, div(inst, n, reduced_divisor[1], overflow_checks))
    /\ UNCHANGED <<inst, overflow_checks, reduced_divisor>>

\* numerator % reduced_divisor
Rem(n) ==
    /\ reduced_divisor # <<>>
    /\ numerator' = <<n>>
    /\ last' = Call("rem", n, rem(inst, n, reduced_divisor[1], overflow_checks))
    /\ UNCHANGED <<inst, overflow_checks, reduced_divisor>>

\* $struct_name::div_rem(numerator, reduced_divisor)
DivRem(n) ==
    /\ reduced_divisor # <<>>
    /\ numerator' = <<n>>
    /\ last' = Call("div_rem", n, div_rem(inst, n, reduced_divisor[1], overflow_checks))
    /\ UNCHANGED <<inst, overflow_checks, reduced_divisor>>

\* reduced_divisor.get()
Get ==
    /\ reduced_divisor # <<>>
    /\ last' = Call("get", <<>>, get(inst, reduced_divisor[1]))
    /\ UNCHANGED <<inst, overflow_checks, reduced_divisor, numerator>>

\* the loop moves on to its next numerator; the results of the body are gone
Continue ==
    /\ numerator # <<>>
    /\ numerator' = <<>>
    /\ last' = NoCall
    /\ UNCHANGED <<inst, overflow_checks, reduced_divisor>>

Next ==
    \/ \E d \in Divisors(inst) : New(d)
    \/ \E n \in Current : Div(n)
    \/ \E n \in Current : Rem(n)
    \/ \E n \in Current : DivRem(n)
    \/ Get
    \/ Continue

Spec == Init /\ [][Next]_vars

(***************************************************************************)
(* Properties                                                              *)
(***************************************************************************)
Built == reduced_divisor # <<>>
TheDivisor == reduced_divisor[1].divisor
TheMultiplier == reduced_divisor[1].multiplier
TheShift == reduced_divisor[1].shift_value
Width == inst.bit_width
One(k) == FromInt(1, k)

\* numerator / divisor and numerator % divisor of the primitive type
NaiveDiv(n, d) == DivMod(n, d).quot
NaiveRem(n, d) == DivMod(n, d).rem

\* C1: in the macro with the narrowed multiplier (8 and 16 bits), every
\* division numerator / new(divisor) returns the truncating quotient of
\* numerator by divisor.
C1_QuotientA ==
    (inst.variant = "A" /\ last.op = "div")
        => /\ last.panic = ""
           /\ last.val = NaiveDiv(last.arg, TheDivisor)

\* C2: in the macro with the intermediate multiplier (32 and 64 bits and the
\* pointer width), every division numerator / new(divisor) returns the
\* truncating quotient of numerator by divisor.
C2_QuotientB ==
    (inst.variant = "B" /\ last.op = "div")
        => /\ last.panic = ""
           /\ last.val = NaiveDiv(last.arg, TheDivisor)

\* C3: numerator % new(divisor) returns the remainder of numerator by
\* divisor, which is below the divisor.
C3_Remainder ==
    last.op = "rem"
        => /\ last.panic = ""
           /\ last.val = NaiveRem(last.arg, TheDivisor)
           /\ Less(last.val, TheDivisor)

\* C4: on a constructed value no division, remainder or div_rem fails: no
\* arithmetic step leaves the range of its type.
C4_NeverFails ==
    last.op \in {"div", "rem", "div_rem"} => last.panic = ""

\* C5: new(0) fails on the assertion, before anything is computed, and
\* produces no value; every value that exists has a positive divisor.
C5_ZeroRejected ==
    /\ Built => ~IsZero(TheDivisor)
    /\ (last.op = "new" /\ IsZero(last.arg))
           => (last.panic = AssertMsg /\ ~Built)

C5_Witness ==
    /\ last.op = "new"
    /\ IsZero(last.arg)
    /\ last.panic = AssertMsg
    /\ inst.struct = "StrengthReducedUsize"

\* C6: div_rem(numerator, new(divisor)) fails exactly when one of the
\* operators / and % fails, and otherwise returns the pair of their results.
C6_DivRemAgrees ==
    last.op = "div_rem"
        => LET q == div(inst, last.arg, reduced_divisor[1], overflow_checks)
               r == rem(inst, last.arg, reduced_divisor[1], overflow_checks)
           IN  /\ (last.panic = "") <=> (q.panic = "" /\ r.panic = "")
               /\ last.panic = "" => last.val = <<q.val, r.val>>

C6_Witness ==
    /\ last.op = "div_rem"
    /\ last.panic = ""
    /\ ~IsZero(last.val[1])
    /\ ~IsZero(last.val[2])

\* C7: the quotient returned by numerator / new(divisor) is at most the
\* numerator.
C7_QuotientAtMostNumerator ==
    last.op = "div" => (last.panic = "" /\ LessEq(last.val, last.arg))

\* a division whose result is not the truncating quotient
C7_Witness ==
    /\ last.op = "div"
    /\ last.panic = ""
    /\ last.val # NaiveDiv(last.arg, TheDivisor)

\* C8: new(1) stores the multiplier 1 (2^W with the intermediate multiplier)
\* and the shift 0; dividing by it returns the numerator and the remainder
\* by it is 0.
C8_UnitDivisor ==
    (Built /\ TheDivisor = One(PrimBytes(Width)))
        => /\ TheShift = 0
           /\ inst.variant = "A" => TheMultiplier = One(PrimBytes(Width))
           /\ inst.variant = "B"
                  => TheMultiplier = Cast(<<>>, PrimBytes(Width)) \o One(PrimBytes(Width))
           /\ last.op = "div" => (last.panic = "" /\ last.val = last.arg)
           /\ last.op = "rem" => (last.panic = "" /\ IsZero(last.val))

C8_Witness ==
    /\ Built
    /\ TheDivisor = One(PrimBytes(Width))
    /\ inst.variant = "B"
    /\ last.op = "div"
    /\ last.arg = MaxValue(PrimBytes(Width))

\* C9: new(d) stores d, get returns the stored divisor, no call changes a
\* constructed value, and repeating a call returns the same result.
C9_Immutable ==
    [][ /\ (last'.op = "new" /\ last'.panic = "")
            => (Built' /\ reduced_divisor'[1].divisor = last'.arg)
        /\ Built => reduced_divisor' = reduced_divisor
        /\ last'.op = "get"
            => (Built /\ last'.panic = "" /\ last'.val = TheDivisor)
        /\ (last'.op = last.op /\ last'.arg = last.arg /\ last.op # "none")
            => last' = last ]_vars

\* get called in the body of the loop, after a division
C9_Witness ==
    /\ last.op = "get"
    /\ numerator # <<>>
    /\ last.val = TheDivisor
    /\ ~IsZero(last.val)

\* d <= 2^t, and 2^t is the smallest such power of two
IsCeilLog2(t, d) ==
    /\ LessEq(d, Shl(One(Len(d)), t))
    /\ t > 0 => Less(Shl(One(Len(d)), t - 1), d)

\* m = ceil(2^s / d), i.e. 2^s <= m * d < 2^s + d
IsCeilQuotient(m, s, d) ==
    LET k == Len(m) + Len(d)
        pow == Shl(One(k), s)
        prod == WideMul(m, d)
    IN  /\ LessEq(pow, prod)
        /\ Less(prod, WrappingAdd(pow, d).val)

\* C10: for a divisor d >= 2 construction succeeds, and with
\* t = ceil(log2 d) and shift_size = t + W - 1 <= 2W - 1 the stored
\* multiplier is ceil(2^shift_size / d); the dividend 2^shift_size + d - 1
\* fits the intermediate type; shift_value is shift_size with the narrowed
\* multiplier and t - 1 <= W - 1 with the intermediate one.
C10_Multiplier ==
    (last.op = "new" /\ Less(One(PrimBytes(Width)), last.arg))
        => /\ last.panic = ""
           /\ Built
           /\ \E t \in 1..Width :
                 LET d == Cast(last.arg, InterBytes(Width))
                     shift_size == t + Width - 1
                 IN  /\ IsCeilLog2(t, d)
                     /\ shift_size <= 2 * Width - 1
                     /\ ~WrappingAdd(Shl(One(InterBytes(Width)), shift_size),
                                     WrappingSub(d, One(1)).val).overflow
                     /\ IsCeilQuotient(Cast(TheMultiplier, InterBytes(Width)),
                                       shift_size, d)
                     /\ inst.variant = "A" => TheShift = shift_size
                     /\ inst.variant = "B" => (TheShift = t - 1 /\ TheShift <= Width - 1)

\* a divisor that is not a power of two, so that the quotient is rounded up
C10_Witness ==
    /\ last.op = "new"
    /\ last.panic = ""
    /\ Built
    /\ Less(One(PrimBytes(Width)), last.arg)
    /\ NextPowerOfTwo(last.arg).val # last.arg

====
